---- MODULE Spec2Model ----
(***************************************************************************)
(* Model of the car_tracker frontend:                                      *)
(*   - LocationSelect (src/car_tracker/src/App.tsx, 614-904): the          *)
(*     debounced geocode search, its response handling and the selection;  *)
(*   - getDisplayName and the suggestions mapping (App.tsx, 678-728);      *)
(*   - getDefaultCoordinates (components/MapComponent.tsx, 121-145);       *)
(*   - fetchCoordinates, the map-initialisation batch                      *)
(*     (components/MapComponent.tsx, 72-118).                              *)
(*                                                                         *)
(* Texts are sequences of one-character strings, so that length, trim,     *)
(* toLowerCase, includes and template concatenation are computed.          *)
(* A nullable value is a sequence of length 0 (null) or 1 (the value).     *)
(* Coordinates are integers in units of 1/10000 degree (41.8781 is 418781).*)
(***************************************************************************)
EXTENDS Integers, Sequences, FiniteSets, TLC

VARIABLES
    \* ---- LocationSelect ----
    query,        \* useState query (App.tsx:622)
    results,      \* useState results (App.tsx:623)
    loading,      \* useState loading (App.tsx:624)
    error,        \* useState error (App.tsx:625)
    debounceRef,  \* useRef debounceRef.current (App.tsx:626)
    value,        \* prop value: the parent's stored selection (App.tsx:616, 68)
    timers,       \* the browser's pending setTimeout callbacks
    inflight,     \* fetches awaiting their response
    issued,       \* every geocode request sent so far, in order (the q parameter)
    applied,      \* sequence number of the request whose response wrote state last
    burst,        \* the query changes made since a change last found no timer pending
    selected,     \* the candidate picked by handleLocationChange, until the next edit
    \* ---- suggestions mapping / getDisplayName ----
    sgFeature, sgLocation, sgPc,
    \* ---- getDefaultCoordinates ----
    fbText, fbResult, fbPc,
    \* ---- MapComponent fetchCoordinates ----
    mapProps, mapCalls, mapBatch, coordinates, mapLoading,
    \* ---- MapComponent: the batch of the props before a props change ----
    prevProps, prevCalls, prevBatch,
    \* ---- MapComponent: the segment markers ----
    segSegments,  \* prop segments (MapComponent.tsx:51)
    segCoords,    \* the coordinates the markers are drawn for
    segMarkers,   \* the result of segments?.map(...), one element per segment
    segPc,
    \* ---- App renderELDGrid ----
    gridLog,      \* the dailyLog argument
    grid,         \* the cells rendered, by status row and hour
    gridPc,
    \* ---- App handleSubmit ----
    pickupLocation,   \* useState pickupLocation (App.tsx:69)
    dropoffLocation,  \* useState dropoffLocation (App.tsx:70)
    tripResult,       \* useState tripResult (App.tsx:73)
    appLoading,       \* useState loading (App.tsx:74)
    appError,         \* useState error (App.tsx:75)
    tripInflight,     \* POST /trips/ requests awaiting their response
    tripIssued,       \* number of POST /trips/ requests sent so far
    clicks,           \* number of clicks on the submit button so far
    \* ---- App formatTime ----
    fmtHour,      \* the hour argument
    fmtText,      \* the string returned
    fmtPc

lsVars == <<query, results, loading, error, debounceRef, value, timers,
            inflight, issued, applied, burst, selected>>
sgVars == <<sgFeature, sgLocation, sgPc>>
fbVars == <<fbText, fbResult, fbPc>>
mapVars == <<mapProps, mapCalls, mapBatch, coordinates, mapLoading>>
prevVars == <<prevProps, prevCalls, prevBatch>>
segVars == <<segSegments, segCoords, segMarkers, segPc>>
gridVars == <<gridLog, grid, gridPc>>
tripVars == <<pickupLocation, dropoffLocation, tripResult, appLoading, appError,
              tripInflight, tripIssued, clicks>>
fmtVars == <<fmtHour, fmtText, fmtPc>>
vars == <<lsVars, sgVars, fbVars, mapVars, prevVars, segVars, gridVars, tripVars, fmtVars>>

-----------------------------------------------------------------------------
(* Nullable values and texts *)

Null == <<>>
Some(x) == <<x>>

Range(s) == {s[i] : i \in 1..Len(s)}

UpperChars == <<"A","B","C","D","E","F","G","H","I","J","K","L","M",
                "N","O","P","Q","R","S","T","U","V","W","X","Y","Z">>
LowerChars == <<"a","b","c","d","e","f","g","h","i","j","k","l","m",
                "n","o","p","q","r","s","t","u","v","w","x","y","z">>

\* String.prototype.toLowerCase, one character.
LowerChar(c) ==
    IF \E i \in 1..26 : UpperChars[i] = c
    THEN LowerChars[CHOOSE i \in 1..26 : UpperChars[i] = c]
    ELSE c

\* String.prototype.toLowerCase.
ToLowerCase(t) == [i \in 1..Len(t) |-> LowerChar(t[i])]

\* String.prototype.includes: hay.includes(needle).
Includes(hay, needle) ==
    \E i \in 0..(Len(hay) - Len(needle)) :
        SubSeq(hay, i + 1, i + Len(needle)) = needle

\* String.prototype.trim (the only whitespace of the model's texts is " ").
RECURSIVE TrimStart(_)
TrimStart(t) ==
    IF t # <<>> /\ Head(t) = " " THEN TrimStart(Tail(t)) ELSE t
RECURSIVE TrimEnd(_)
TrimEnd(t) ==
    IF t # <<>> /\ t[Len(t)] = " " THEN TrimEnd(SubSeq(t, 1, Len(t) - 1)) ELSE t
Trim(t) == TrimEnd(TrimStart(t))

-----------------------------------------------------------------------------
(* getDisplayName and the suggestions mapping (App.tsx) *)

\* JavaScript truthiness of an optional string property: undefined and ""
\* are both falsy, and both are the empty text here.
Truthy(t) == t # <<>>

CommaSpace == <<",", " ">>
UnknownLocation == <<"U","n","k","n","o","w","n"," ","l","o","c","a","t","i","o","n">>

getDisplayName_NameBeforeLocality(properties) ==
    IF Truthy(properties.label) THEN properties.label
    ELSE IF Truthy(properties.name) /\ Truthy(properties.region)
         THEN properties.name \o CommaSpace \o properties.region
    ELSE IF Truthy(properties.locality) /\ Truthy(properties.region)
         THEN properties.locality \o CommaSpace \o properties.region
    ELSE IF Truthy(properties.name) THEN properties.name
    ELSE UnknownLocation

getDisplayName(properties) ==
    IF Truthy(properties.label) THEN properties.label
    ELSE IF Truthy(properties.locality) /\ Truthy(properties.region)
         THEN properties.locality \o CommaSpace \o properties.region
    ELSE IF Truthy(properties.name) /\ Truthy(properties.region)
         THEN properties.name \o CommaSpace \o properties.region
    ELSE IF Truthy(properties.name) THEN properties.name
    ELSE UnknownLocation

CountryUS == <<"U","S">>

\* One element of data.features.map(...): rnd is Math.random().toString().
Suggestion(feature, rnd) ==
    LET props == feature.properties IN
    [ id       |-> IF Truthy(feature.id) THEN feature.id
                   ELSE IF Truthy(props.id) THEN props.id ELSE rnd,
      name     |-> getDisplayName(props),
      coords   |-> feature.geometry.coordinates,
      locality |-> props.locality,
      region   |-> props.region,
      country  |-> IF Truthy(props.country) THEN props.country ELSE CountryUS ]

-----------------------------------------------------------------------------
(* getDefaultCoordinates (MapComponent.tsx) *)

\* cityCoords, in declaration order (Object.entries iterates string keys in
\* insertion order).
cityCoords == <<
    [city |-> <<"c","h","i","c","a","g","o">>,                 coords |-> <<418781, -876298>>],
    [city |-> <<"d","e","t","r","o","i","t">>,                 coords |-> <<423314, -830458>>],
    [city |-> <<"d","e","n","v","e","r">>,                     coords |-> <<397392, -1049903>>],
    [city |-> <<"l","o","s"," ","a","n","g","e","l","e","s">>, coords |-> <<340522, -1182437>>],
    [city |-> <<"n","e","w"," ","y","o","r","k">>,             coords |-> <<407128, -740060>>],
    [city |-> <<"m","i","a","m","i">>,                         coords |-> <<257617, -801918>>],
    [city |-> <<"h","o","u","s","t","o","n">>,                 coords |-> <<297604, -953698>>],
    [city |-> <<"s","e","a","t","t","l","e">>,                 coords |-> <<476062, -1223321>>],
    [city |-> <<"p","h","o","e","n","i","x">>,                 coords |-> <<334484, -1120740>>],
    [city |-> <<"d","a","l","l","a","s">>,                     coords |-> <<327767, -967970>>] >>

CenterOfUS == <<398283, -985795>>

\* The for-of loop from entry i on: the first matching entry returns.
RECURSIVE CityScan(_, _)
CityScan(locationLower, i) ==
    IF i > Len(cityCoords) THEN CenterOfUS
    ELSE IF Includes(locationLower, cityCoords[i].city)
            \/ Includes(cityCoords[i].city, locationLower)
         THEN cityCoords[i].coords
         ELSE CityScan(locationLower, i + 1)

getDefaultCoordinates_CaseSensitive(location) == CityScan(location, 1)

RECURSIVE CityScanLast(_, _)
CityScanLast(locationLower, i) ==
    IF i < 1 THEN CenterOfUS
    ELSE IF Includes(locationLower, cityCoords[i].city)
            \/ Includes(cityCoords[i].city, locationLower)
         THEN cityCoords[i].coords
         ELSE CityScanLast(locationLower, i - 1)

getDefaultCoordinates_LastWins(location) ==
    CityScanLast(ToLowerCase(location), Len(cityCoords))

getDefaultCoordinates(location) == CityScan(ToLowerCase(location), 1)

-----------------------------------------------------------------------------
(* LocationSelect: data *)

T_Empty == <<>>
T_Ch == <<"c","h">>
T_Blank == <<" "," "," ">>
T_Chi == <<"c","h","i">>
T_Den == <<"d","e","n">>
T_Chicago == <<"C","h","i","c","a","g","o">>
T_IL == <<"I","L">>
T_ChicagoIL == <<"C","h","i","c","a","g","o",","," ","I","L">>
T_DenverCO == <<"D","e","n","v","e","r",","," ","C","O">>

\* What the user can type into the Combobox input.
InputTexts == {T_Empty, T_Ch, T_Blank, T_Chi, T_Den, T_ChicagoIL}

\* Features of the geocoding service: coordinates are [lng, lat].
FeatureChicago ==
    [ id |-> <<"f","1">>,
      geometry |-> [coordinates |-> <<-876298, 418781>>],
      properties |-> [id |-> <<>>, label |-> <<>>, locality |-> T_Chicago,
                      region |-> T_IL, name |-> T_Chicago, country |-> <<>>] ]
FeatureDenver ==
    [ id |-> <<"f","2">>,
      geometry |-> [coordinates |-> <<-1049903, 397392>>],
      properties |-> [id |-> <<>>, label |-> T_DenverCO, locality |-> <<>>,
                      region |-> <<>>, name |-> <<>>, country |-> CountryUS] ]

\* Messages are sequences of the pieces a template literal joins.
MsgNoLocations == <<"No locations found. Try a different search.">>
MsgSearchErrorPrefix == "Search error: "
MsgFailedToFetchLocations == <<"Failed to fetch locations">>

\* The ways a fetch can end: the promise of fetch or res.json() rejects with
\* `thrown`, or the response has status `status` and body `data`.
Rejected(thrown) ==
    [rejected |-> TRUE, thrown |-> thrown, ok |-> FALSE, status |-> "0",
     data |-> [error |-> <<>>, features |-> <<>>]]
Answered(ok, status, data) ==
    [rejected |-> FALSE, thrown |-> [isError |-> FALSE, message |-> <<>>],
     ok |-> ok, status |-> status, data |-> data]

Responses ==
    { Rejected([isError |-> TRUE, message |-> <<"Failed to fetch">>]),
      Answered(FALSE, "500", [error |-> <<>>, features |-> <<>>]),
      Answered(TRUE, "200", [error |-> <<"Geocoding service unavailable">>,
                             features |-> <<>>]),
      Answered(TRUE, "200", [error |-> <<>>, features |-> <<>>]),
      Answered(TRUE, "200", [error |-> <<>>, features |-> <<FeatureChicago>>]),
      Answered(TRUE, "200", [error |-> <<>>,
                             features |-> <<FeatureDenver, FeatureChicago>>]) }

RandomIds == {<<"0",".","4","2">>}

\* At most this many geocode requests are sent in one run of the model.
MaxIssued == 2

-----------------------------------------------------------------------------
(* LocationSelect: the effect on [query] *)

\* !query.trim() || query.length < 3
ShortQuery(q) == Trim(q) = <<>> \/ Len(q) < 3

ClearTimeout_Noop(ts, ref) == ts

\* if (debounceRef.current) clearTimeout(debounceRef.current)
ClearTimeout(ts, ref) ==
    IF ref = Null THEN ts ELSE {t \in ts : t.id # ref[1]}

\* The id setTimeout returns: one no pending timer has and the ref does not hold.
FreshTimerId(ts, ref) ==
    LET used == {t.id : t \in ts} \cup Range(ref)
    IN  CHOOSE i \in 1..(Cardinality(used) + 1) : i \notin used

EffectTimers_NoCleanup(oldQuery, newQuery) ==
    IF ShortQuery(newQuery)
    THEN [timers |-> timers, ref |-> debounceRef]
    ELSE LET cleared == ClearTimeout(timers, debounceRef)
             id == FreshTimerId(cleared, debounceRef)
         IN  [timers |-> cleared \cup {[id |-> id, q |-> newQuery]},
              ref |-> Some(id)]

\* The timers and the ref after React has run the previous effect's cleanup
\* (one was returned only when the previous query passed the guard) and then
\* the effect for newQuery.
EffectTimers(oldQuery, newQuery) ==
    LET afterCleanup == IF ShortQuery(oldQuery) THEN timers
                        ELSE ClearTimeout(timers, debounceRef)
    IN  IF ShortQuery(newQuery)
        THEN [timers |-> afterCleanup, ref |-> debounceRef]
        ELSE LET cleared == ClearTimeout(afterCleanup, debounceRef)
                 id == FreshTimerId(cleared, debounceRef)
             IN  [timers |-> cleared \cup {[id |-> id, q |-> newQuery]},
                  ref |-> Some(id)]

\* The record of the current burst of query changes after a change to newQuery.
BurstAfter(newQuery) ==
    IF burst # Null /\ timers # {}
    THEN Some([start |-> burst[1].start, multi |-> TRUE, last |-> newQuery,
               allLong |-> burst[1].allLong /\ Len(newQuery) >= 3,
               allSearchable |-> burst[1].allSearchable /\ ~ShortQuery(newQuery)])
    ELSE Some([start |-> Len(issued), multi |-> FALSE, last |-> newQuery,
               allLong |-> Len(newQuery) >= 3,
               allSearchable |-> ~ShortQuery(newQuery)])

\* The state after the handlers' own setters gave (newQuery, res, err) and React
\* re-rendered: the effect runs only when query changed.
QueryEffect(newQuery, res, err) ==
    IF newQuery = query
    THEN /\ results' = res
         /\ error' = err
         /\ UNCHANGED <<timers, debounceRef, burst>>
    ELSE /\ results' = IF ShortQuery(newQuery) THEN <<>> ELSE res
         /\ error' = IF ShortQuery(newQuery) THEN Null ELSE err
         /\ timers' = EffectTimers(query, newQuery).timers
         /\ debounceRef' = EffectTimers(query, newQuery).ref
         /\ burst' = BurstAfter(newQuery)

-----------------------------------------------------------------------------
(* LocationSelect: handlers *)

\* The selection after handleInputChange's
\* if (inputValue && value?.name && inputValue !== value.name) onChange(null).
handleInputChange_Selection(inputValue) ==
    IF Truthy(inputValue) /\ value # Null /\ Truthy(value[1].name)
       /\ inputValue # value[1].name
    THEN Null
    ELSE value

\* handleInputChange(inputValue), then the effect of the query change.
handleInputChange(inputValue) ==
    /\ query' = inputValue
    /\ value' = handleInputChange_Selection(inputValue)
    /\ QueryEffect(inputValue, results, Null)
    /\ selected' = Null
    /\ UNCHANGED <<loading, inflight, issued, applied>>

\* handleLocationChange(location) for an option of the list, then the effect.
\* The options are rendered unless the "Searching..." row replaces them
\* (loading && query).
handleLocationChange(location) ==
    /\ ~(loading /\ Truthy(query))
    /\ query' = location.name
    /\ value' = Some(location)
    /\ QueryEffect(location.name, <<>>, Null)
    /\ selected' = Some(location)
    /\ UNCHANGED <<loading, inflight, issued, applied>>

\* clearSelection(): handleLocationChange(null), setQuery(""), then the effect.
clearSelection ==
    /\ value # Null \/ Truthy(query)
    /\ ~loading
    /\ query' = T_Empty
    /\ value' = Null
    /\ QueryEffect(T_Empty, <<>>, Null)
    /\ selected' = Null
    /\ UNCHANGED <<loading, inflight, issued, applied>>

\* The debounce timer t fires: the callback runs up to its await fetch(...).
TimerFire(t) ==
    /\ Len(issued) < MaxIssued
    /\ timers' = timers \ {t}
    /\ loading' = TRUE
    /\ error' = Null
    /\ issued' = Append(issued, t.q)
    /\ inflight' = inflight \cup {[seq |-> Len(issued) + 1, q |-> t.q]}
    /\ UNCHANGED <<query, results, debounceRef, value, applied, burst, selected>>

\* The value caught by catch (err): what fetch or res.json() rejected with, or
\* the Error thrown for a non-ok status.
Caught(resp) ==
    IF resp.rejected THEN resp.thrown
    ELSE [isError |-> TRUE, message |-> <<"API error: ", resp.status>>]

\* A variant that answers a failed search with a candidate made of the query
\* text and its fallback coordinate.
ResponseState_FallbackOnFailure(r, resp, rnd) ==
    IF resp.rejected \/ ~resp.ok
    THEN [results |-> << [id |-> rnd, name |-> r.q,
                          coords |-> getDefaultCoordinates(r.q),
                          locality |-> <<>>, region |-> <<>>, country |-> CountryUS] >>,
          error |-> Some(<<MsgSearchErrorPrefix>> \o
                         (IF Caught(resp).isError THEN Caught(resp).message
                          ELSE MsgFailedToFetchLocations))]
    ELSE IF Truthy(resp.data.error)
    THEN [results |-> <<>>, error |-> Some(resp.data.error)]
    ELSE IF resp.data.features = <<>>
    THEN [results |-> <<>>, error |-> Some(MsgNoLocations)]
    ELSE [results |-> [i \in 1..Len(resp.data.features) |->
                            Suggestion(resp.data.features[i], rnd)],
          error |-> error]

\* results and error after the callback of request r resumed with resp: the
\* try block from if (!res.ok) on, and the catch block.
ResponseState(r, resp, rnd) ==
    IF resp.rejected \/ ~resp.ok
    THEN [results |-> <<>>,
          error |-> Some(<<MsgSearchErrorPrefix>> \o
                         (IF Caught(resp).isError THEN Caught(resp).message
                          ELSE MsgFailedToFetchLocations))]
    ELSE IF Truthy(resp.data.error)
    THEN [results |-> <<>>, error |-> Some(resp.data.error)]
    ELSE IF resp.data.features = <<>>
    THEN [results |-> <<>>, error |-> Some(MsgNoLocations)]
    ELSE [results |-> [i \in 1..Len(resp.data.features) |->
                            Suggestion(resp.data.features[i], rnd)],
          error |-> error]

\* The fetch of request r ends with resp: the rest of the callback runs,
\* finally block included.
Complete(r, resp, rnd) ==
    /\ results' = ResponseState(r, resp, rnd).results
    /\ error' = ResponseState(r, resp, rnd).error
    /\ loading' = FALSE
    /\ inflight' = inflight \ {r}
    /\ applied' = r.seq
    /\ UNCHANGED <<query, debounceRef, value, timers, issued, burst, selected>>

InitLS ==
    /\ query = T_Empty
    /\ results = <<>>
    /\ loading = FALSE
    /\ error = Null
    /\ debounceRef = Null
    /\ value = Null
    /\ timers = {}
    /\ inflight = {}
    /\ issued = <<>>
    /\ applied = 0
    /\ burst = Null
    /\ selected = Null

\* The parts of the model a specification does not exercise stay as follows.
InitSG ==
    /\ sgFeature = Null
    /\ sgLocation = Null
    /\ sgPc = "idle"

InitFB ==
    /\ fbText = <<>>
    /\ fbResult = Null
    /\ fbPc = "idle"

InitMap ==
    /\ mapProps = Null
    /\ mapCalls = Null
    /\ mapBatch = "idle"
    /\ coordinates = Null
    /\ mapLoading = TRUE

InitPrev ==
    /\ prevProps = Null
    /\ prevCalls = Null
    /\ prevBatch = "none"

InitSeg ==
    /\ segSegments = Null
    /\ segCoords = Null
    /\ segMarkers = Null
    /\ segPc = "idle"

InitGrid ==
    /\ gridLog = Null
    /\ grid = Null
    /\ gridPc = "idle"

InitTrip ==
    /\ pickupLocation = Null
    /\ dropoffLocation = Null
    /\ tripResult = Null
    /\ appLoading = FALSE
    /\ appError = <<>>
    /\ tripInflight = {}
    /\ tripIssued = 0
    /\ clicks = 0

InitFmt ==
    /\ fmtHour = Null
    /\ fmtText = Null
    /\ fmtPc = "idle"

InitRest == InitPrev /\ InitSeg /\ InitGrid /\ InitTrip /\ InitFmt

-----------------------------------------------------------------------------
(* The suggestions mapping applied to one feature *)

T_Loop == <<"L","o","o","p">>

\* Features with every combination of present and absent properties.
SuggestFeatures ==
    { [ id |-> fid,
        geometry |-> [coordinates |-> c],
        properties |-> [id |-> pid, label |-> lbl, locality |-> loc,
                        region |-> reg, name |-> nm, country |-> <<>>] ] :
      fid \in {<<>>, <<"f","1">>}, pid \in {<<>>, <<"p","1">>},
      c \in {<<-876298, 418781>>, <<418781, -876298>>},
      lbl \in {<<>>, T_DenverCO}, loc \in {<<>>, T_Chicago},
      reg \in {<<>>, T_IL}, nm \in {<<>>, T_Loop} }

InitSuggest ==
    /\ InitLS /\ InitFB /\ InitMap /\ InitRest
    /\ sgFeature \in {Some(f) : f \in SuggestFeatures}
    /\ sgLocation = Null
    /\ sgPc = "map"

\* data.features.map(...) on the feature.
SuggestMap(rnd) ==
    /\ sgPc = "map"
    /\ sgLocation' = Some(Suggestion(sgFeature[1], rnd))
    /\ sgPc' = "done"
    /\ UNCHANGED <<sgFeature, lsVars, fbVars, mapVars, prevVars, segVars, gridVars, tripVars, fmtVars>>

NextSuggest == \E rnd \in RandomIds : SuggestMap(rnd)

SpecSuggest == InitSuggest /\ [][NextSuggest]_vars

-----------------------------------------------------------------------------
(* getDefaultCoordinates applied to one text *)

\* The longest text drawn from FallbackAlphabet.
MaxTextLen == 2

FallbackAlphabet == {"a", "l", "L", "s", "q", " "}

RECURSIVE TextsUpTo(_)
TextsUpTo(n) ==
    IF n = 0 THEN {<<>>}
    ELSE TextsUpTo(n - 1) \cup
         {Append(t, c) : t \in {u \in TextsUpTo(n - 1) : Len(u) = n - 1},
                         c \in FallbackAlphabet}

T_CHICAGO == <<"C","H","I","C","A","G","O">>
T_chicagoIL == <<"c","h","i","c","a","g","o",","," ","I","L">>
T_DallasChicago == <<"D","a","l","l","a","s"," ","t","o"," ","C","h","i","c","a","g","o">>
T_MiamiDenver == <<"m","i","a","m","i"," ","d","e","n","v","e","r">>
T_Boise == <<"B","o","i","s","e">>
T_NewYork == <<"N","e","w"," ","Y","o","r","k">>
T_NEWYORK == <<"N","E","W"," ","Y","O","R","K">>
T_York == <<"Y","o","r","k">>
T_Phoenix == <<"p","h","o","e","n","i","x">>

FallbackSamples ==
    { T_CHICAGO, T_chicagoIL, T_Chicago, T_ChicagoIL, T_DallasChicago,
      T_MiamiDenver, T_Boise, T_NewYork, T_NEWYORK, T_York, T_Phoenix,
      T_DenverCO, T_Den, T_Chi }

FallbackTexts == FallbackSamples \cup TextsUpTo(MaxTextLen)

InitFallback ==
    /\ InitLS /\ InitSG /\ InitMap /\ InitRest
    /\ fbText \in FallbackTexts
    /\ fbResult = Null
    /\ fbPc = "call"

\* One call getDefaultCoordinates(fbText).
FallbackCall ==
    /\ fbPc = "call"
    /\ fbResult' = Some(getDefaultCoordinates(fbText))
    /\ fbPc' = "done"
    /\ UNCHANGED <<fbText, lsVars, sgVars, mapVars, prevVars, segVars, gridVars, tripVars, fmtVars>>

NextFallback == FallbackCall

SpecFallback == InitFallback /\ [][NextFallback]_vars

-----------------------------------------------------------------------------
(* MapComponent: the effect on [currentLocation, pickupLocation, dropoffLocation] *)

MapKeys == {"current", "pickup", "dropoff"}

\* The location props: display strings.
MapTexts == {T_ChicagoIL, T_Boise, T_Den}

\* The ways one geocode call of the batch can end: fetch or response.json()
\* rejects, or the body is data (response.ok is not looked at).
MapResponses ==
    { [rejected |-> TRUE, data |-> [features |-> <<>>]],
      [rejected |-> FALSE, data |-> [features |-> <<>>]],
      [rejected |-> FALSE, data |-> [features |-> <<FeatureChicago>>]],
      [rejected |-> FALSE, data |-> [features |-> <<FeatureDenver, FeatureChicago>>]] }

\* [coords[1], coords[0]]: Leaflet's [lat, lng] from the service's [lng, lat].
LatLng(coords) == <<coords[2], coords[1]>>

\* The promise of locations.map(async (location) => ...) once its fetch ended
\* with resp.
CoordPromise(location, resp) ==
    IF resp.rejected
    THEN [state |-> "rejected", value |-> Null, geocoded |-> FALSE]
    ELSE IF Len(resp.data.features) > 0
    THEN [state |-> "fulfilled",
          value |-> Some(LatLng(resp.data.features[1].geometry.coordinates)),
          geocoded |-> TRUE]
    ELSE [state |-> "fulfilled", value |-> Some(getDefaultCoordinates(location)),
          geocoded |-> FALSE]

PendingPromise == [state |-> "pending", value |-> Null, geocoded |-> FALSE]

\* The catch block's setCoordinates argument.
CatchCoordinates ==
    [k \in MapKeys |-> getDefaultCoordinates(mapProps[1][k])]

\* After the first render and the start of fetchCoordinates: the three fetches
\* are out and Promise.all is awaited.
InitMapMounted ==
    /\ InitLS /\ InitSG /\ InitFB /\ InitRest
    /\ mapProps \in {Some(p) : p \in [MapKeys -> MapTexts]}
    /\ mapCalls = Some([k \in MapKeys |-> PendingPromise])
    /\ mapBatch = "awaiting"
    /\ coordinates = Null
    /\ mapLoading = TRUE

\* The fetch of location k ends with resp; when that settles Promise.all
\* (the first rejection, or the last fulfilment) the rest of fetchCoordinates
\* runs: setCoordinates, or the catch block, and the finally block.
MapSettle(k, resp) ==
    /\ mapCalls # Null
    /\ mapCalls[1][k].state = "pending"
    /\ LET calls == [mapCalls[1] EXCEPT ![k] = CoordPromise(mapProps[1][k], resp)]
       IN  /\ mapCalls' = Some(calls)
           /\ IF mapBatch # "awaiting"
              THEN UNCHANGED <<mapBatch, coordinates, mapLoading>>
              ELSE IF calls[k].state = "rejected"
              THEN /\ coordinates' = Some(CatchCoordinates)
                   /\ mapLoading' = FALSE
                   /\ mapBatch' = "caught"
              ELSE IF \A j \in MapKeys : calls[j].state = "fulfilled"
              THEN /\ coordinates' = Some([j \in MapKeys |-> calls[j].value[1]])
                   /\ mapLoading' = FALSE
                   /\ mapBatch' = "resolved"
              ELSE UNCHANGED <<mapBatch, coordinates, mapLoading>>
    /\ UNCHANGED <<mapProps, lsVars, sgVars, fbVars, prevVars, segVars, gridVars, tripVars, fmtVars>>

NextMap == \E k \in MapKeys, resp \in MapResponses : MapSettle(k, resp)

SpecMap == InitMapMounted /\ [][NextMap]_vars

-----------------------------------------------------------------------------
(* MapComponent: what is rendered *)

ColorDefault == "#6b7280"
ColorPickup == "#22c55e"
ColorDropoff == "#16a34a"

MapRender_UnavailableOnFallback ==
    IF mapLoading
    THEN [view |-> "loading", polyline |-> <<>>, markers |-> <<>>]
    ELSE IF coordinates = Null \/ \E k \in MapKeys : ~mapCalls[1][k].geocoded
    THEN [view |-> "unavailable", polyline |-> <<>>, markers |-> <<>>]
    ELSE [view |-> "map",
          polyline |-> <<coordinates[1]["current"], coordinates[1]["pickup"],
                         coordinates[1]["dropoff"]>>,
          markers |-> << [position |-> coordinates[1]["current"], color |-> ColorDefault],
                         [position |-> coordinates[1]["pickup"], color |-> ColorPickup],
                         [position |-> coordinates[1]["dropoff"], color |-> ColorDropoff] >>]

\* The component's return value: "Loading map...", "Unable to load map
\* coordinates", or the map with routePoints and the three key markers.
MapRender ==
    IF mapLoading
    THEN [view |-> "loading", polyline |-> <<>>, markers |-> <<>>]
    ELSE IF coordinates = Null
    THEN [view |-> "unavailable", polyline |-> <<>>, markers |-> <<>>]
    ELSE [view |-> "map",
          polyline |-> <<coordinates[1]["current"], coordinates[1]["pickup"],
                         coordinates[1]["dropoff"]>>,
          markers |-> << [position |-> coordinates[1]["current"], color |-> ColorDefault],
                         [position |-> coordinates[1]["pickup"], color |-> ColorPickup],
                         [position |-> coordinates[1]["dropoff"], color |-> ColorDropoff] >>]

-----------------------------------------------------------------------------
(* MapComponent: the markers of the segments *)

\* Numbers computed with a division are kept as exact fractions in lowest
\* terms, [n, d] with d > 0.
RECURSIVE GCD(_, _)
GCD(a, b) == IF b = 0 THEN a ELSE GCD(b, a % b)

Abs(x) == IF x < 0 THEN 0 - x ELSE x

Rat(n, d) ==
    LET g == GCD(Abs(n), d) IN [n |-> n \div g, d |-> d \div g]

Whole(x) == Rat(x, 1)

MarkerTypes == {"fuel", "rest_break", "sleeper_berth"}

iconColors(type) ==
    CASE type = "driving" -> "#ef4444"
      [] type = "fuel" -> "#eab308"
      [] type = "pickup" -> ColorPickup
      [] type = "dropoff" -> ColorDropoff
      [] type = "sleeper_berth" -> "#3b82f6"
      [] type = "rest_break" -> "#a855f7"
      [] OTHER -> ColorDefault

\* current + (dropoff - current) * progress, progress = (index + 1) / (n + 1)
Interpolate(from, to, index, n) ==
    Rat(from * (n + 1) + (to - from) * (index + 1), n + 1)

\* The callback of segments.map for the element at 0-based index, where the
\* position counts only the segments that get a marker.
SegmentMarker_FilteredIndex(segs, index, c) ==
    LET marked == {j \in 1..Len(segs) : segs[j].segment_type \in MarkerTypes}
        rank == Cardinality({j \in marked : j < index + 1})
        total == Cardinality(marked)
    IN IF segs[index + 1].segment_type \in MarkerTypes
       THEN Some([key |-> index,
                  position |-> << Interpolate(c.current[1], c.dropoff[1], rank, total),
                                  Interpolate(c.current[2], c.dropoff[2], rank, total) >>,
                  color |-> iconColors(segs[index + 1].segment_type)])
       ELSE Null

\* The callback of segments.map for the element at 0-based index: a Marker
\* for the three stop types, null for every other type.  No field of the
\* segment other than segment_type takes part in the position.
SegmentMarker(segs, index, c) ==
    IF segs[index + 1].segment_type \in MarkerTypes
    THEN Some([key |-> index,
               position |-> << Interpolate(c.current[1], c.dropoff[1], index, Len(segs)),
                               Interpolate(c.current[2], c.dropoff[2], index, Len(segs)) >>,
               color |-> iconColors(segs[index + 1].segment_type)])
    ELSE Null

\* segments?.map(...): Null when the prop is absent.
SegmentMarkers(segs, c) ==
    IF segs = Null THEN Null
    ELSE Some([i \in 1..Len(segs[1]) |-> SegmentMarker(segs[1], i - 1, c)])

MaxSegments == 3

SegmentTypes == {"driving", "pickup", "fuel", "rest_break", "sleeper_berth"}

\* A coordinate a trip segment of the response may carry as a property of its
\* own, in [lat, lng] order.
PreciseStop == <<400000, -950000>>

\* The segments of a trip response: segment_type, and `coordinate` for a
\* property of the object beyond those TripSegment declares.
SegmentPool ==
    [segment_type : SegmentTypes, coordinate : {Null, Some(PreciseStop)}]

SegmentLists == UNION {[1..k -> SegmentPool] : k \in 0..MaxSegments}

Origin == <<0, 0>>
TenTen == <<100000, 100000>>

SegmentCoords ==
    { [current |-> Origin, pickup |-> Origin, dropoff |-> TenTen],
      [current |-> LatLng(FeatureChicago.geometry.coordinates),
       pickup |-> CenterOfUS,
       dropoff |-> LatLng(FeatureDenver.geometry.coordinates)],
      [current |-> TenTen, pickup |-> Origin, dropoff |-> TenTen] }

InitSegments ==
    /\ InitLS /\ InitSG /\ InitFB /\ InitMap /\ InitPrev /\ InitGrid /\ InitTrip /\ InitFmt
    /\ segSegments \in {Null} \cup {Some(l) : l \in SegmentLists}
    /\ segCoords \in {Some(c) : c \in SegmentCoords}
    /\ segMarkers = Null
    /\ segPc = "props"

\* One render of the map with stored coordinates.
SegmentsRender ==
    /\ segPc = "props"
    /\ segMarkers' = SegmentMarkers(segSegments, segCoords[1])
    /\ segPc' = "rendered"
    /\ UNCHANGED <<segSegments, segCoords, lsVars, sgVars, fbVars, mapVars,
                   prevVars, gridVars, tripVars, fmtVars>>

NextSegments == SegmentsRender

SpecSegments == InitSegments /\ [][NextSegments]_vars

-----------------------------------------------------------------------------
(* App: formatTime, getDutyStatusColor, renderELDGrid *)

\* Math.floor and Math.ceil of a fraction [n, d], d > 0.
Floor(r) == r.n \div r.d
Ceil(r) == 0 - ((0 - r.n) \div r.d)

\* Math.round(x) is floor(x + 1/2).
Round(r) == (2 * r.n + r.d) \div (2 * r.d)

DigitChars == <<"0", "1", "2", "3", "4", "5", "6", "7", "8", "9">>

\* Number.prototype.toString of a non-negative whole number.
RECURSIVE toString(_)
toString(n) ==
    IF n < 10 THEN <<DigitChars[n + 1]>>
    ELSE toString(n \div 10) \o <<DigitChars[(n % 10) + 1]>>

RECURSIVE padStart(_, _, _)
padStart(s, targetLength, padChar) ==
    IF Len(s) >= targetLength THEN s
    ELSE padStart(<<padChar>> \o s, targetLength, padChar)

formatTime(hour) ==
    LET hours == Floor(hour)
        minutes == Round(Rat((hour.n - hours * hour.d) * 60, hour.d))
    IN padStart(toString(hours), 2, "0") \o <<":">> \o padStart(toString(minutes), 2, "0")

getDutyStatusColor(status) ==
    CASE status = "driving" -> "bg-red-500"
      [] status = "on_duty_not_driving" -> "bg-yellow-500"
      [] status = "sleeper_berth" -> "bg-blue-500"
      [] status = "off_duty" -> "bg-gray-500"
      [] OTHER -> "bg-gray-300"

\* The rows of the grid, in rendering order.
DutyStatusRows == <<"off_duty", "sleeper_berth", "driving", "on_duty_not_driving">>

\* Array.from({ length: 24 }, (_, i) => i)
hours == 0..23

EntryMatches_EndFloor(e, hour, status) ==
    /\ hour >= Floor(e.start_hour)
    /\ hour < Floor(e.end_hour)
    /\ e.duty_status = status

EntryMatches_EndInclusive(e, hour, status) ==
    /\ hour >= Floor(e.start_hour)
    /\ hour <= Ceil(e.end_hour)
    /\ e.duty_status = status

\* The predicate handed to entries.find.
EntryMatches(e, hour, status) ==
    /\ hour >= Floor(e.start_hour)
    /\ hour < Ceil(e.end_hour)
    /\ e.duty_status = status

FindEntry_Last(entries, hour, status) ==
    IF entries = Null THEN Null
    ELSE LET hits == {i \in 1..Len(entries[1]) : EntryMatches(entries[1][i], hour, status)}
         IN IF hits = {} THEN Null
            ELSE Some(entries[1][CHOOSE i \in hits : \A j \in hits : j <= i])

\* dailyLog.entries?.find(...): the first element the predicate accepts, Null
\* for undefined (entries absent, or no element accepted).
FindEntry(entries, hour, status) ==
    IF entries = Null THEN Null
    ELSE LET hits == {i \in 1..Len(entries[1]) : EntryMatches(entries[1][i], hour, status)}
         IN IF hits = {} THEN Null
            ELSE Some(entries[1][CHOOSE i \in hits : \A j \in hits : i <= j])

\* `${entry.location} (${formatTime(entry.start_hour)} - ${formatTime(entry.end_hour)})`
CellTitle(entry) ==
    entry.location \o <<" ", "(">> \o formatTime(entry.start_hour)
        \o <<" ", "-", " ">> \o formatTime(entry.end_hour) \o <<")">>

GridCell(dailyLog, status, hour) ==
    LET entry == FindEntry(dailyLog.entries, hour, status)
    IN [className |-> IF entry # Null THEN getDutyStatusColor(entry[1].duty_status)
                      ELSE "bg-white",
        title |-> IF entry # Null THEN CellTitle(entry[1]) ELSE <<>>]

renderELDGrid(dailyLog) ==
    [r \in 1..Len(DutyStatusRows) |->
        [status |-> DutyStatusRows[r],
         cells |-> [hour \in hours |-> GridCell(dailyLog, DutyStatusRows[r], hour)]]]

MaxEntries == 2

Half(n) == Rat(n, 2)

\* [start_hour, end_hour] of the entries of a log.
EntryIntervals ==
    { <<Whole(0), Whole(2)>>, <<Whole(2), Half(11)>>, <<Half(11), Whole(8)>>,
      <<Whole(2), Whole(8)>>, <<Whole(4), Whole(6)>>, <<Whole(0), Whole(24)>> }

EntryStatuses == {"driving", "off_duty", "on_duty_not_driving"}

EntryPool ==
    { [duty_status |-> s, start_hour |-> iv[1], end_hour |-> iv[2], location |-> l] :
        s \in EntryStatuses, iv \in EntryIntervals, l \in {T_Chi, T_Den} }

EntryLists == UNION {[1..k -> EntryPool] : k \in 0..MaxEntries}

InitGridLog ==
    /\ InitLS /\ InitSG /\ InitFB /\ InitMap /\ InitPrev /\ InitSeg /\ InitTrip /\ InitFmt
    /\ gridLog \in {Some([entries |-> Null])}
                    \cup {Some([entries |-> Some(l)]) : l \in EntryLists}
    /\ grid = Null
    /\ gridPc = "props"

\* One call renderELDGrid(log) of the daily_logs map.
GridRender ==
    /\ gridPc = "props"
    /\ grid' = Some(renderELDGrid(gridLog[1]))
    /\ gridPc' = "rendered"
    /\ UNCHANGED <<gridLog, lsVars, sgVars, fbVars, mapVars, prevVars, segVars, tripVars, fmtVars>>

NextGrid == GridRender

SpecGrid == InitGridLog /\ [][NextGrid]_vars

-----------------------------------------------------------------------------
(* MapComponent: the props change while the effect's batch is in flight *)

\* The props of two trip results shown one after the other.
RerenderProps ==
    { [current |-> T_ChicagoIL, pickup |-> T_ChicagoIL, dropoff |-> T_ChicagoIL],
      [current |-> T_Den, pickup |-> T_Boise, dropoff |-> T_ChicagoIL] }

\* The ways a geocode call ends here: rejected, no feature, one feature.
RerenderResponses ==
    { resp \in MapResponses : Len(resp.data.features) <= 1 }

InitMapRerender ==
    /\ InitLS /\ InitSG /\ InitFB /\ InitPrev /\ InitSeg /\ InitGrid /\ InitTrip /\ InitFmt
    /\ mapProps \in {Some(p) : p \in RerenderProps}
    /\ mapCalls = Some([k \in MapKeys |-> PendingPromise])
    /\ mapBatch = "awaiting"
    /\ coordinates = Null
    /\ mapLoading = TRUE

\* A render with props p that differ in a dependency: the effect runs again
\* (it returns no cleanup, so the earlier fetchCoordinates call goes on) and
\* the new fetchCoordinates call runs up to its await: setLoading(true) and
\* three fetches.  The model follows one change of the props.
PropsChange(p) ==
    /\ prevBatch = "none"
    /\ p # mapProps[1]
    /\ prevProps' = mapProps
    /\ prevCalls' = mapCalls
    /\ prevBatch' = mapBatch
    /\ mapProps' = Some(p)
    /\ mapCalls' = Some([k \in MapKeys |-> PendingPromise])
    /\ mapBatch' = "awaiting"
    /\ mapLoading' = TRUE
    /\ UNCHANGED <<coordinates, lsVars, sgVars, fbVars, segVars, gridVars, tripVars, fmtVars>>

\* The catch block's setCoordinates argument in the earlier call, whose
\* closure holds the earlier props.
PrevCatchCoordinates ==
    [k \in MapKeys |-> getDefaultCoordinates(prevProps[1][k])]

\* As MapSettle, for a fetch of the fetchCoordinates call started for the
\* earlier props.
PrevSettle(k, resp) ==
    /\ prevCalls # Null
    /\ prevCalls[1][k].state = "pending"
    /\ LET calls == [prevCalls[1] EXCEPT ![k] = CoordPromise(prevProps[1][k], resp)]
       IN  /\ prevCalls' = Some(calls)
           /\ IF prevBatch # "awaiting"
              THEN UNCHANGED <<prevBatch, coordinates, mapLoading>>
              ELSE IF calls[k].state = "rejected"
              THEN /\ coordinates' = Some(PrevCatchCoordinates)
                   /\ mapLoading' = FALSE
                   /\ prevBatch' = "caught"
              ELSE IF \A j \in MapKeys : calls[j].state = "fulfilled"
              THEN /\ coordinates' = Some([j \in MapKeys |-> calls[j].value[1]])
                   /\ mapLoading' = FALSE
                   /\ prevBatch' = "resolved"
              ELSE UNCHANGED <<prevBatch, coordinates, mapLoading>>
    /\ UNCHANGED <<prevProps, mapProps, mapCalls, mapBatch,
                   lsVars, sgVars, fbVars, segVars, gridVars, tripVars, fmtVars>>

NextMapRerender ==
    \/ \E p \in RerenderProps : PropsChange(p)
    \/ \E k \in MapKeys, resp \in RerenderResponses : MapSettle(k, resp)
    \/ \E k \in MapKeys, resp \in RerenderResponses : PrevSettle(k, resp)

SpecMapRerender == InitMapRerender /\ [][NextMapRerender]_vars

-----------------------------------------------------------------------------
(* App: formatTime applied to one hour value *)

\* The hour values are the multiples of 1/HourGrid in [0, 24].
HourGrid == 1000

GridHours == {Rat(k, HourGrid) : k \in 0..(24 * HourGrid)}

InitFormat ==
    /\ InitLS /\ InitSG /\ InitFB /\ InitMap /\ InitPrev /\ InitSeg /\ InitGrid /\ InitTrip
    /\ fmtHour \in {Some(h) : h \in GridHours}
    /\ fmtText = Null
    /\ fmtPc = "call"

\* One call formatTime(fmtHour).
FormatCall ==
    /\ fmtPc = "call"
    /\ fmtText' = Some(formatTime(fmtHour[1]))
    /\ fmtPc' = "done"
    /\ UNCHANGED <<fmtHour, lsVars, sgVars, fbVars, mapVars, prevVars, segVars,
                   gridVars, tripVars>>

NextFormat == FormatCall

SpecFormat == InitFormat /\ [][NextFormat]_vars

-----------------------------------------------------------------------------
(* LocationSelect: the component *)

Init == InitLS /\ InitSG /\ InitFB /\ InitMap /\ InitRest

\* Everything that is not LocationSelect's.
otherVars == <<sgVars, fbVars, mapVars, prevVars, segVars, gridVars, tripVars, fmtVars>>

Next ==
    \/ \E inputValue \in InputTexts :
         handleInputChange(inputValue) /\ UNCHANGED otherVars
    \/ \E i \in 1..Len(results) :
         handleLocationChange(results[i]) /\ UNCHANGED otherVars
    \/ clearSelection /\ UNCHANGED otherVars
    \/ \E t \in timers :
         TimerFire(t) /\ UNCHANGED otherVars
    \/ \E r \in inflight, resp \in Responses, rnd \in RandomIds :
         Complete(r, resp, rnd) /\ UNCHANGED otherVars

Spec == Init /\ [][Next]_vars

-----------------------------------------------------------------------------
(* App: the form, handleSubmit and one LocationSelect *)

MsgSelectAll == <<"Please select all locations">>
MsgFailedToCreateTrip == <<"Failed to create trip">>
MsgUnknownError == <<"An unknown error occurred">>

\* The ways the POST ends: fetch rejects; a non-ok status whose body has an
\* error text, or none; an ok status with a trip result; response.json()
\* rejects.
TripResponses ==
    { [rejected |-> TRUE, thrown |-> [isError |-> TRUE, message |-> <<"Failed to fetch">>],
       ok |-> FALSE, badJson |-> FALSE, data |-> [error |-> <<>>, result |-> "none"]],
      [rejected |-> FALSE, thrown |-> [isError |-> FALSE, message |-> <<>>],
       ok |-> FALSE, badJson |-> FALSE,
       data |-> [error |-> <<"No route found">>, result |-> "none"]],
      [rejected |-> FALSE, thrown |-> [isError |-> FALSE, message |-> <<>>],
       ok |-> FALSE, badJson |-> FALSE, data |-> [error |-> <<>>, result |-> "none"]],
      [rejected |-> FALSE, thrown |-> [isError |-> TRUE, message |-> <<"Unexpected token <">>],
       ok |-> FALSE, badJson |-> TRUE, data |-> [error |-> <<>>, result |-> "none"]],
      [rejected |-> FALSE, thrown |-> [isError |-> TRUE, message |-> <<"Unexpected end of JSON input">>],
       ok |-> TRUE, badJson |-> TRUE, data |-> [error |-> <<>>, result |-> "none"]],
      [rejected |-> FALSE, thrown |-> [isError |-> FALSE, message |-> <<>>],
       ok |-> TRUE, badJson |-> FALSE, data |-> [error |-> <<>>, result |-> "trip"]] }

\* At most this many clicks on the submit button in one run of the model.
MaxSubmits == 2

isFormValid == value # Null /\ pickupLocation # Null /\ dropoffLocation # Null

\* handleSubmit() up to its return, or up to its await fetch(...).
handleSubmit ==
    IF value = Null \/ pickupLocation = Null \/ dropoffLocation = Null
    THEN /\ appError' = MsgSelectAll
         /\ UNCHANGED <<pickupLocation, dropoffLocation, tripResult, appLoading,
                        tripInflight, tripIssued>>
    ELSE /\ appLoading' = TRUE
         /\ appError' = <<>>
         /\ tripIssued' = tripIssued + 1
         /\ tripInflight' = tripInflight \cup
               {[seq |-> tripIssued + 1,
                 payload |-> [current_location |-> [name |-> value[1].name,
                                                    coords |-> value[1].coords],
                              pickup_location |-> [name |-> pickupLocation[1].name,
                                                   coords |-> pickupLocation[1].coords],
                              dropoff_location |-> [name |-> dropoffLocation[1].name,
                                                    coords |-> dropoffLocation[1].coords]]]}
         /\ UNCHANGED <<pickupLocation, dropoffLocation, tripResult>>

\* A click on the submit button, which is disabled while loading || !isFormValid.
SubmitClick ==
    /\ clicks < MaxSubmits
    /\ ~(appLoading \/ ~isFormValid)
    /\ clicks' = clicks + 1
    /\ handleSubmit
    /\ UNCHANGED <<lsVars, sgVars, fbVars, mapVars, prevVars, segVars, gridVars, fmtVars>>

\* What catch (err) receives when the request fails, Null when it succeeds.
TripCaught(resp) ==
    IF resp.rejected \/ resp.badJson THEN Some(resp.thrown)
    ELSE IF ~resp.ok
    THEN Some([isError |-> TRUE,
               message |-> IF Truthy(resp.data.error) THEN resp.data.error
                           ELSE MsgFailedToCreateTrip])
    ELSE Null

\* A variant that sends the request again when it failed.
TripComplete_RetryOnFailure(r, resp) ==
    /\ r \in tripInflight
    /\ IF TripCaught(resp) = Null
       THEN /\ tripResult' = Some(resp.data.result)
            /\ appLoading' = FALSE
            /\ tripInflight' = tripInflight \ {r}
            /\ UNCHANGED <<appError, tripIssued>>
       ELSE /\ tripIssued' = tripIssued + 1
            /\ tripInflight' = (tripInflight \ {r}) \cup
                                  {[seq |-> tripIssued + 1, payload |-> r.payload]}
            /\ UNCHANGED <<appError, tripResult, appLoading>>
    /\ UNCHANGED <<pickupLocation, dropoffLocation, clicks>>
    /\ UNCHANGED <<lsVars, sgVars, fbVars, mapVars, prevVars, segVars, gridVars, fmtVars>>

\* A variant whose catch block also drops the stored trip result.
TripComplete_ClearsResultOnFailure(r, resp) ==
    /\ r \in tripInflight
    /\ IF TripCaught(resp) = Null
       THEN /\ tripResult' = Some(resp.data.result)
            /\ UNCHANGED appError
       ELSE /\ appError' = (IF TripCaught(resp)[1].isError
                            THEN TripCaught(resp)[1].message ELSE MsgUnknownError)
            /\ tripResult' = Null
    /\ appLoading' = FALSE
    /\ tripInflight' = tripInflight \ {r}
    /\ UNCHANGED <<pickupLocation, dropoffLocation, tripIssued, clicks>>
    /\ UNCHANGED <<lsVars, sgVars, fbVars, mapVars, prevVars, segVars, gridVars, fmtVars>>

\* The fetch of request r ends with resp: the rest of handleSubmit runs, its
\* catch and finally blocks included.
TripComplete(r, resp) ==
    /\ r \in tripInflight
    /\ IF TripCaught(resp) = Null
       THEN /\ tripResult' = Some(resp.data.result)
            /\ UNCHANGED appError
       ELSE /\ appError' = (IF TripCaught(resp)[1].isError
                            THEN TripCaught(resp)[1].message ELSE MsgUnknownError)
            /\ UNCHANGED tripResult
    /\ appLoading' = FALSE
    /\ tripInflight' = tripInflight \ {r}
    /\ UNCHANGED <<pickupLocation, dropoffLocation, tripIssued, clicks>>
    /\ UNCHANGED <<lsVars, sgVars, fbVars, mapVars, prevVars, segVars, gridVars, fmtVars>>

\* What the pickup and dropoff LocationSelect instances report.
OtherSelections == {Some(Suggestion(FeatureDenver, rnd)) : rnd \in RandomIds}

\* onChange={setPickupLocation}
setPickupLocation(v) ==
    /\ pickupLocation # v
    /\ pickupLocation' = v
    /\ UNCHANGED <<dropoffLocation, tripResult, appLoading, appError,
                   tripInflight, tripIssued, clicks>>
    /\ UNCHANGED <<lsVars, sgVars, fbVars, mapVars, prevVars, segVars, gridVars, fmtVars>>

\* onChange={setDropoffLocation}
setDropoffLocation(v) ==
    /\ dropoffLocation # v
    /\ dropoffLocation' = v
    /\ UNCHANGED <<pickupLocation, tripResult, appLoading, appError,
                   tripInflight, tripIssued, clicks>>
    /\ UNCHANGED <<lsVars, sgVars, fbVars, mapVars, prevVars, segVars, gridVars, fmtVars>>

\* The texts typed and the geocode responses followed next to the form.
AppInputTexts == {T_Empty, T_Chi, T_Den}
AppResponses ==
    { resp \in Responses : resp.rejected \/ Len(resp.data.features) = 1 }

NextApp ==
    \/ \E inputValue \in AppInputTexts :
         handleInputChange(inputValue) /\ UNCHANGED otherVars
    \/ \E i \in 1..Len(results) :
         handleLocationChange(results[i]) /\ UNCHANGED otherVars
    \/ clearSelection /\ UNCHANGED otherVars
    \/ \E t \in timers :
         TimerFire(t) /\ UNCHANGED otherVars
    \/ \E r \in inflight, resp \in AppResponses, rnd \in RandomIds :
         Complete(r, resp, rnd) /\ UNCHANGED otherVars
    \/ \E v \in OtherSelections : setPickupLocation(v)
    \/ \E v \in OtherSelections : setDropoffLocation(v)
    \/ SubmitClick
    \/ \E r \in tripInflight, resp \in TripResponses : TripComplete(r, resp)

SpecApp == Init /\ [][NextApp]_vars

-----------------------------------------------------------------------------
(* App: handleSubmit called in every state of the three locations *)

\* At most this many calls of handleSubmit in one run of the model.
MaxCalls == 3

\* onChange={setCurrentLocation}, by what that LocationSelect reports.
setCurrentLocation(v) ==
    /\ value # v
    /\ value' = v
    /\ UNCHANGED <<query, results, loading, error, debounceRef, timers, inflight,
                   issued, applied, burst, selected>>
    /\ UNCHANGED otherVars

\* A call of handleSubmit while loading is false.  The button is also
\* disabled while a location is null; the handler is called here without that
\* half of the condition, so that its own check of the locations decides.
handleSubmitCall ==
    /\ clicks < MaxCalls
    /\ ~appLoading
    /\ clicks' = clicks + 1
    /\ handleSubmit
    /\ UNCHANGED <<lsVars, sgVars, fbVars, mapVars, prevVars, segVars, gridVars, fmtVars>>

\* What a LocationSelect reports: a candidate, or null when it is cleared.
ReportedSelections == {Null} \cup OtherSelections

NextSubmit ==
    \/ \E v \in ReportedSelections : setCurrentLocation(v)
    \/ \E v \in ReportedSelections : setPickupLocation(v)
    \/ \E v \in ReportedSelections : setDropoffLocation(v)
    \/ handleSubmitCall
    \/ \E r \in tripInflight, resp \in TripResponses : TripComplete(r, resp)

SpecSubmit == Init /\ [][NextSubmit]_vars

-----------------------------------------------------------------------------
(* Properties of LocationSelect, checked under Spec *)

\* C1: once no request is in flight any more, the response that wrote the
\* candidate list and the error last is the one of the latest issued request:
\* a response of an earlier request arriving after it is discarded.
C1_StaleResponseDiscarded ==
    (inflight = {} /\ Len(issued) >= 2) => applied = Len(issued)

\* The requests sent since the current burst began.
BurstRequests == SubSeq(issued, burst[1].start + 1, Len(issued))

\* What C2 says of a burst: no request while the last change's timer is
\* pending (that timer is the only one, and holds the final text), and once it
\* has fired exactly one request, with the final text as q.
BurstIsSingleFlight ==
    IF timers = {}
    THEN BurstRequests = <<burst[1].last>>
    ELSE /\ BurstRequests = <<>>
         /\ \A t \in timers : t.q = burst[1].last
         /\ Cardinality(timers) = 1

\* C2 as written: in a burst of changes, each to a text of at least 3
\* characters and each arriving before the previous change's timer fired,
\* exactly one request is issued, for the final text.
C2_BurstOfLongTexts ==
    (burst # Null /\ burst[1].allLong) => BurstIsSingleFlight

\* C2, amended: the same for bursts whose texts all pass the effect's guard,
\* that is, are at least 3 characters long and not blank.
C2_BurstOfSearchableTexts ==
    (burst # Null /\ burst[1].allSearchable) => BurstIsSingleFlight

\* C2 witness: a burst of several searchable texts whose last timer has fired
\* and sent the single request of the burst.
C2_Witness ==
    /\ burst # Null
    /\ burst[1].multi
    /\ burst[1].allSearchable
    /\ timers = {}
    /\ BurstRequests = <<burst[1].last>>

\* C3: a change of the query to a blank text or one shorter than 3 characters
\* empties the candidate list, clears the error, sends no request and leaves
\* no timer pending; and while the query stays such a text no request is sent.
C3_ShortQueryClearsAndIsSilent ==
    [][ /\ (query' # query /\ ShortQuery(query')) =>
              (results' = <<>> /\ error' = Null /\ issued' = issued /\ timers' = {})
        /\ (query' = query /\ ShortQuery(query)) => issued' = issued ]_vars

\* C3 witness: the query became a short text while the timer of an earlier,
\* longer text of the burst was pending, and no request has been sent since.
C3_Witness ==
    /\ burst # Null
    /\ burst[1].multi
    /\ burst[1].last = query
    /\ ShortQuery(query)
    /\ ~burst[1].allSearchable
    /\ timers = {}
    /\ BurstRequests = <<>>
    /\ results = <<>>
    /\ error = Null

\* C4 (its closing sentence): no state shows a non-null error together with a
\* non-empty candidate list.
C4_NoErrorWithCandidates ==
    ~(error # Null /\ results # <<>>)

\* C5: while a selection is stored, a text edit to any text other than the
\* selection's display name, the empty text included, clears the selection;
\* an edit to the display name leaves it.
C5_EditClearsSelection ==
    [][ \A inputValue \in InputTexts :
          (value # Null /\ handleInputChange(inputValue)) =>
              IF inputValue # value[1].name THEN value' = Null
              ELSE value' = value ]_vars

\* C6: from the selection of a candidate until the next text edit, the stored
\* selection is that candidate and the candidate list is empty.
C6_SelectionStaysClean ==
    selected # Null => (value = selected /\ results = <<>>)

-----------------------------------------------------------------------------
(* Properties of the suggestions mapping, checked under SpecSuggest *)

\* C7: the candidate's name is the label if present; else "locality, region"
\* if both are present; else "name, region" if both are present; else the
\* name if present; else "Unknown location"; and its coords are the feature's
\* geometry.coordinates, unchanged.
C7_DisplayNameChain ==
    sgPc = "done" =>
        LET p == sgFeature[1].properties
            hasLabel == p.label # <<>>
            hasLocality == p.locality # <<>>
            hasRegion == p.region # <<>>
            hasName == p.name # <<>>
            expected ==
                CASE hasLabel -> p.label
                  [] ~hasLabel /\ hasLocality /\ hasRegion ->
                        p.locality \o <<",", " ">> \o p.region
                  [] ~hasLabel /\ ~(hasLocality /\ hasRegion) /\ hasName /\ hasRegion ->
                        p.name \o <<",", " ">> \o p.region
                  [] ~hasLabel /\ ~hasRegion /\ hasName -> p.name
                  [] ~hasLabel /\ ~hasName /\ ~(hasLocality /\ hasRegion) ->
                        <<"U","n","k","n","o","w","n"," ","l","o","c","a","t","i","o","n">>
        IN  /\ sgLocation[1].name = expected
            /\ sgLocation[1].coords = sgFeature[1].geometry.coordinates

\* C7 witness: a feature with locality, region and name but no label was
\* mapped, and its name is "Chicago, IL" (locality before name).
C7_Witness ==
    /\ sgPc = "done"
    /\ sgFeature[1].properties.label = <<>>
    /\ sgFeature[1].properties.locality = T_Chicago
    /\ sgFeature[1].properties.name = T_Loop
    /\ sgFeature[1].properties.region = T_IL
    /\ sgLocation[1].name = T_ChicagoIL
    /\ sgLocation[1].coords = <<-876298, 418781>>

-----------------------------------------------------------------------------
(* Properties of getDefaultCoordinates, checked under SpecFallback *)

\* Entry i of the table matches the text: its key is a substring of the
\* lowercased text, or contains it.
KeyMatches(i, text) ==
    \/ Includes(ToLowerCase(text), cityCoords[i].city)
    \/ Includes(cityCoords[i].city, ToLowerCase(text))

\* C8: the result is the coordinate of the earliest-declared entry that
\* matches the text in either direction, and the default (39.8283, -98.5795)
\* when none does.
C8_FirstDeclaredMatchWins ==
    fbPc = "done" =>
        LET matching == {i \in 1..Len(cityCoords) : KeyMatches(i, fbText)}
        IN  IF matching = {}
            THEN fbResult = Some(<<398283, -985795>>)
            ELSE \E i \in matching :
                    /\ \A j \in matching : i <= j
                    /\ fbResult = Some(cityCoords[i].coords)

\* C8 witness: "Dallas to Chicago" names dallas first, and chicago, declared
\* first, wins.
C8_Witness ==
    /\ fbPc = "done"
    /\ fbText = T_DallasChicago
    /\ fbResult = Some(<<418781, -876298>>)

\* C9: texts that differ only in letter case get the same coordinate;
\* "CHICAGO", "chicago, IL" and "Chicago" get (41.8781, -87.6298); a text
\* that matches no key gets the default.
C9_CaseInsensitive ==
    fbPc = "done" =>
        /\ \A other \in FallbackTexts :
              ToLowerCase(other) = ToLowerCase(fbText) =>
                  fbResult = Some(getDefaultCoordinates(other))
        /\ fbText \in {T_CHICAGO, T_chicagoIL, T_Chicago} =>
              fbResult = Some(<<418781, -876298>>)
        /\ (\A i \in 1..Len(cityCoords) : ~KeyMatches(i, fbText)) =>
              fbResult = Some(<<398283, -985795>>)

\* C9 witness: the call for "CHICAGO" returned Chicago's coordinate.
C9_Witness ==
    /\ fbPc = "done"
    /\ fbText = T_CHICAGO
    /\ fbResult = Some(<<418781, -876298>>)

-----------------------------------------------------------------------------
(* Properties of the map-initialisation batch, checked under SpecMap *)

\* C10: once the batch has set the coordinates, every location whose own
\* call returned a feature has its geocoded coordinate, whatever the other
\* calls did, and every other location has the fallback coordinate.
C10_PerLocationFallback ==
    coordinates # Null =>
        \A k \in MapKeys :
            /\ mapCalls[1][k].geocoded =>
                  coordinates[1][k] = mapCalls[1][k].value[1]
            /\ (mapCalls[1][k].state # "pending" /\ ~mapCalls[1][k].geocoded) =>
                  coordinates[1][k] = getDefaultCoordinates(mapProps[1][k])

\* A call of the batch has ended without a geocoded coordinate: it rejected,
\* or the body had no feature.
GeocodingFailed(k) ==
    mapCalls[1][k].state # "pending" /\ ~mapCalls[1][k].geocoded

\* C11 as written: once the batch is over, the component shows "Unable to load
\* map coordinates" when the geocoding of at least one location failed, and a
\* map only when all three resolved.
C11_UnavailableOnAnyFailure ==
    mapBatch \in {"resolved", "caught"} =>
        /\ (\E k \in MapKeys : GeocodingFailed(k)) => MapRender.view = "unavailable"
        /\ MapRender.view = "map" => \A k \in MapKeys : mapCalls[1][k].geocoded

\* Each stored coordinate is the geocoded result of the call of a
\* fetchCoordinates run for its location, or the fallback of that location.
StoredFrom(props, calls) ==
    \A k \in MapKeys :
        \/ calls[1][k].geocoded /\ coordinates[1][k] = calls[1][k].value[1]
        \/ coordinates[1][k] = getDefaultCoordinates(props[1][k])

\* C11, amended: the component never shows "Unable to load map coordinates";
\* once the batch is over, whatever the outcomes of the three calls, it shows
\* the map with the polyline [current, pickup, dropoff] of the stored
\* coordinates, each of them geocoded or the fallback.
C11_MapAfterEveryBatch ==
    /\ MapRender.view # "unavailable"
    /\ mapBatch \in {"resolved", "caught"} =>
          /\ MapRender.view = "map"
          /\ MapRender.polyline = <<coordinates[1]["current"],
                                   coordinates[1]["pickup"],
                                   coordinates[1]["dropoff"]>>
          /\ \/ StoredFrom(mapProps, mapCalls)
             \/ prevBatch # "none" /\ StoredFrom(prevProps, prevCalls)

\* C11 witness: one call rejected, the two others returned a feature, and the
\* map is shown.
C11_Witness ==
    /\ mapBatch = "caught"
    /\ mapCalls[1]["current"].state = "rejected"
    /\ mapCalls[1]["pickup"].geocoded
    /\ mapCalls[1]["dropoff"].geocoded
    /\ MapRender.view = "map"

\* C12: a rendered segment list has one element per segment; the element of a
\* fuel, rest_break or sleeper_berth segment at index i of N is a marker at
\* current + (dropoff - current) * (i + 1) / (N + 1), with i and N counted in
\* the whole list, and the element of any other segment is no marker; with
\* current (0,0), dropoff (10,10) and N = 3 the marker of index 1 is at (5,5).
C12_InterpolatedByUnfilteredIndex ==
    (segPc = "rendered" /\ segSegments # Null) =>
        LET segs == segSegments[1]
            N == Len(segs)
            c == segCoords[1]
            ms == segMarkers[1]
        IN /\ Len(ms) = N
           /\ \A i \in 0..(N - 1) :
                IF segs[i + 1].segment_type \in {"fuel", "rest_break", "sleeper_berth"}
                THEN /\ ms[i + 1] # Null
                     /\ ms[i + 1][1].key = i
                     /\ \A ax \in 1..2 :
                          LET p == ms[i + 1][1].position[ax] IN
                          /\ p.d > 0
                          /\ p.n * (N + 1) =
                               p.d * (c.current[ax] * (N + 1)
                                      + (c.dropoff[ax] - c.current[ax]) * (i + 1))
                     /\ (c.current = Origin /\ c.dropoff = TenTen /\ N = 3 /\ i = 1)
                           => ms[i + 1][1].position = <<Whole(50000), Whole(50000)>>
                ELSE ms[i + 1] = Null

\* C12 witness: three segments, a driving segment first and a fuel segment at
\* index 1, current (0,0) and dropoff (10,10): the fuel marker is at (5,5).
C12_Witness ==
    /\ segPc = "rendered"
    /\ segSegments # Null
    /\ Len(segSegments[1]) = 3
    /\ segSegments[1][1].segment_type = "driving"
    /\ segSegments[1][2].segment_type = "fuel"
    /\ segCoords[1].current = Origin
    /\ segCoords[1].dropoff = TenTen
    /\ segMarkers[1][1] = Null
    /\ segMarkers[1][2] # Null
    /\ segMarkers[1][2][1].position = <<Whole(50000), Whole(50000)>>

\* C13 as written: the marker of a fuel, rest_break or sleeper_berth segment
\* that carries a precise coordinate of its own is at that coordinate.
C13_PreciseCoordinatePreferred ==
    (segPc = "rendered" /\ segSegments # Null) =>
        \A i \in 1..Len(segSegments[1]) :
            (/\ segSegments[1][i].segment_type \in MarkerTypes
             /\ segSegments[1][i].coordinate # Null)
            => /\ segMarkers[1][i] # Null
               /\ segMarkers[1][i][1].position =
                    << Whole(segSegments[1][i].coordinate[1][1]),
                       Whole(segSegments[1][i].coordinate[1][2]) >>

\* The cell of a status row and an hour is drawn as occupied.
Occupied(r, hour) == grid[1][r].cells[hour].className # "bg-white"

\* The entries of the rendered log, the empty list when entries is absent.
GridEntries == IF gridLog[1].entries = Null THEN <<>> ELSE gridLog[1].entries[1]

\* floor(start) <= hour < ceil(end), said without floor and ceil:
\* start < hour + 1 and hour < end.
Covers(e, hour) ==
    /\ e.start_hour.n < (hour + 1) * e.start_hour.d
    /\ hour * e.end_hour.d < e.end_hour.n

\* C14: the grid has the four status rows in order with the cells of hours
\* 0..23 each; a cell is occupied exactly when some entry has the row's status
\* and floor(start_hour) <= hour < ceil(end_hour), so none is when entries is
\* absent or empty; the single entry driving [2, 5.5] occupies exactly the
\* driving hours 2, 3, 4 and 5.
C14_OccupiedIffCovered ==
    gridPc = "rendered" =>
        /\ Len(grid[1]) = 4
        /\ \A r \in 1..4 :
              /\ grid[1][r].status = DutyStatusRows[r]
              /\ DOMAIN grid[1][r].cells = 0..23
              /\ \A hour \in 0..23 :
                    Occupied(r, hour) <=>
                        \E i \in 1..Len(GridEntries) :
                            /\ GridEntries[i].duty_status = grid[1][r].status
                            /\ Covers(GridEntries[i], hour)
        /\ (/\ Len(GridEntries) = 1
            /\ GridEntries[1].duty_status = "driving"
            /\ GridEntries[1].start_hour = Whole(2)
            /\ GridEntries[1].end_hour = Half(11))
           => \A r \in 1..4 : \A hour \in 0..23 :
                 Occupied(r, hour) <=> (r = 3 /\ hour \in {2, 3, 4, 5})

\* C14 witness: the log with the single entry driving [2, 5.5] is rendered,
\* driving hour 5 is occupied and driving hour 6 is not.
C14_Witness ==
    /\ gridPc = "rendered"
    /\ Len(GridEntries) = 1
    /\ GridEntries[1].duty_status = "driving"
    /\ GridEntries[1].start_hour = Whole(2)
    /\ GridEntries[1].end_hour = Half(11)
    /\ Occupied(3, 5)
    /\ ~Occupied(3, 6)

\* The first entry of the list, in list order, that has the status and
\* covers the hour.
FirstCovering(status, hour) ==
    LET hits == {i \in 1..Len(GridEntries) :
                    GridEntries[i].duty_status = status /\ Covers(GridEntries[i], hour)}
    IN CHOOSE i \in hits : \A j \in hits : i <= j

\* C15: when two entries of one status both cover an hour, the one cell of
\* that status and hour is occupied and its tooltip is location, formatted
\* start and formatted end of the entry that comes first in the list, whatever
\* the start times; for driving [4, 6] at "den" listed before driving [2, 5.5]
\* at "chi" the tooltip of hour 4 is "den (04:00 - 06:00)".
C15_FirstListedEntryWins ==
    gridPc = "rendered" =>
        /\ \A r \in 1..4 : \A hour \in 0..23 :
              (\E i, j \in 1..Len(GridEntries) :
                  /\ i # j
                  /\ GridEntries[i].duty_status = DutyStatusRows[r]
                  /\ GridEntries[j].duty_status = DutyStatusRows[r]
                  /\ Covers(GridEntries[i], hour)
                  /\ Covers(GridEntries[j], hour))
              => LET first == GridEntries[FirstCovering(DutyStatusRows[r], hour)]
                 IN /\ Occupied(r, hour)
                    /\ grid[1][r].cells[hour].title =
                          first.location \o <<" ", "(">> \o formatTime(first.start_hour)
                             \o <<" ", "-", " ">> \o formatTime(first.end_hour) \o <<")">>
        /\ (/\ Len(GridEntries) = 2
            /\ GridEntries[1] = [duty_status |-> "driving", start_hour |-> Whole(4),
                                 end_hour |-> Whole(6), location |-> T_Den]
            /\ GridEntries[2] = [duty_status |-> "driving", start_hour |-> Whole(2),
                                 end_hour |-> Half(11), location |-> T_Chi])
           => grid[1][3].cells[4].title =
                 <<"d","e","n"," ","(","0","4",":","0","0"," ","-"," ","0","6",":","0","0",")">>

\* C15 witness: driving [4, 6] at "den" is listed before driving [2, 5.5] at
\* "chi", which starts earlier; the cell of driving hour 5 carries the tooltip
\* of the first, and hour 2, covered by the second only, that of the second.
C15_Witness ==
    /\ gridPc = "rendered"
    /\ Len(GridEntries) = 2
    /\ GridEntries[1] = [duty_status |-> "driving", start_hour |-> Whole(4),
                         end_hour |-> Whole(6), location |-> T_Den]
    /\ GridEntries[2] = [duty_status |-> "driving", start_hour |-> Whole(2),
                         end_hour |-> Half(11), location |-> T_Chi]
    /\ grid[1][3].cells[5].title =
          <<"d","e","n"," ","(","0","4",":","0","0"," ","-"," ","0","6",":","0","0",")">>
    /\ grid[1][3].cells[2].title =
          <<"c","h","i"," ","(","0","2",":","0","0"," ","-"," ","0","5",":","3","0",")">>

\* a <= b for fractions.
RatLeq(a, b) == a.n * b.d <= b.n * a.d

\* The entries satisfy 0 <= start_hour < end_hour <= 24 and each starts at or
\* after the end of the one before it.
WellFormedDisjoint ==
    /\ \A i \in 1..Len(GridEntries) :
          /\ RatLeq(Whole(0), GridEntries[i].start_hour)
          /\ ~RatLeq(GridEntries[i].end_hour, GridEntries[i].start_hour)
          /\ RatLeq(GridEntries[i].end_hour, Whole(24))
    /\ \A i \in 1..(Len(GridEntries) - 1) :
          RatLeq(GridEntries[i].end_hour, GridEntries[i + 1].start_hour)

AtMostOneRowPerHour ==
    \A hour \in 0..23 : Cardinality({r \in 1..4 : Occupied(r, hour)}) <= 1

\* C20 as written: for entries within [0, 24] that do not overlap in time,
\* every hour column has at most one occupied status row.
C20_DisjointEntriesOneRowPerHour ==
    (gridPc = "rendered" /\ WellFormedDisjoint) => AtMostOneRowPerHour

WholeHours ==
    \A i \in 1..Len(GridEntries) :
        GridEntries[i].start_hour.d = 1 /\ GridEntries[i].end_hour.d = 1

\* C20, amended: for entries within [0, 24] that do not overlap in time and
\* whose start_hour and end_hour are all whole numbers, every hour column has
\* at most one occupied status row.
C20_WholeHourEntriesOneRowPerHour ==
    (gridPc = "rendered" /\ WellFormedDisjoint /\ WholeHours) => AtMostOneRowPerHour

\* C20 witness: off_duty [0, 2] followed by driving [2, 8]: hour 1 is occupied
\* in the off_duty row, hour 2 in the driving row only.
C20_Witness ==
    /\ gridPc = "rendered"
    /\ WellFormedDisjoint
    /\ WholeHours
    /\ Len(GridEntries) = 2
    /\ GridEntries[1].duty_status = "off_duty"
    /\ GridEntries[1].end_hour = Whole(2)
    /\ GridEntries[2].duty_status = "driving"
    /\ GridEntries[2].start_hour = Whole(2)
    /\ Occupied(1, 1) /\ ~Occupied(1, 2)
    /\ Occupied(3, 2) /\ ~Occupied(3, 1)

\* sel is null, or a candidate the suggestions mapping built from a feature
\* of a response that was received with an ok status and parsed to a body
\* without an error field, carrying that feature's coordinates and not the
\* fallback coordinate of a query that was searched.
FromGeocodeFeature(sel) ==
    sel # Null =>
        /\ \E resp \in Responses :
              /\ ~resp.rejected /\ resp.ok /\ ~Truthy(resp.data.error)
              /\ \E i \in 1..Len(resp.data.features) : \E rnd \in RandomIds :
                    /\ sel[1] = Suggestion(resp.data.features[i], rnd)
                    /\ sel[1].coords = resp.data.features[i].geometry.coordinates
        /\ \A n \in 1..Len(issued) : sel[1].coords # getDefaultCoordinates(issued[n])
        /\ sel[1].coords # CenterOfUS

\* C16: what onChange last reported, and the value the parent holds, is null
\* or a candidate built from a feature of a successfully parsed geocode
\* response; it is never a fallback or default coordinate.
C16_SelectionFromGeocodeFeature ==
    FromGeocodeFeature(selected) /\ FromGeocodeFeature(value)

\* C16 witness: a search was answered with two features and the second
\* candidate was picked and reported.
C16_Witness ==
    /\ selected # Null
    /\ value = selected
    /\ applied > 0
    /\ selected[1].coords = FeatureChicago.geometry.coordinates
    /\ selected[1] \in {Suggestion(FeatureChicago, rnd) : rnd \in RandomIds}

\* C19 as written: loading is true exactly when at least one search request
\* is in flight.
C19_LoadingIffInFlight ==
    loading <=> (inflight # {})

\* Every fetch of both fetchCoordinates calls has ended.
AllBatchesComplete ==
    /\ prevBatch \in {"resolved", "caught"}
    /\ mapBatch \in {"resolved", "caught"}
    /\ \A k \in MapKeys :
          prevCalls[1][k].state # "pending" /\ mapCalls[1][k].state # "pending"

\* What the fetchCoordinates call for the latest props handed to
\* setCoordinates.
LatestCoordinates ==
    IF mapBatch = "caught" THEN CatchCoordinates
    ELSE [k \in MapKeys |-> mapCalls[1][k].value[1]]

\* C18 as written: when the props changed while the earlier batch was in
\* flight, then once both batches are complete the stored coordinates are
\* those computed for the latest props.
C18_LatestPropsWin ==
    AllBatchesComplete => coordinates = Some(LatestCoordinates)

\* C17: no request is sent again on its own.  A geocode request is sent only
\* by the firing of one pending debounce timer, and a timer is set only by a
\* step that changes the query, one timer per change; a trip request is sent
\* only by a click on the submit button, one request per click; the step in
\* which a geocode search or a trip submission ends, failed or not, sends no
\* request and sets no timer.
C17_NoAutomaticRetry ==
    [][ /\ Len(issued') # Len(issued) =>
              /\ \E t \in timers : timers' = timers \ {t} /\ issued' = Append(issued, t.q)
              /\ inflight \subseteq inflight'
              /\ Cardinality(inflight' \ inflight) = 1
        /\ (timers' \ timers # {}) =>
              /\ query' # query
              /\ Cardinality(timers' \ timers) = 1
              /\ issued' = issued
        /\ (inflight \ inflight' # {}) =>
              /\ inflight' \subseteq inflight
              /\ issued' = issued /\ timers' = timers
              /\ tripIssued' = tripIssued /\ tripInflight' = tripInflight
        /\ tripIssued' # tripIssued =>
              /\ tripIssued' = tripIssued + 1
              /\ clicks' = clicks + 1
              /\ tripInflight \subseteq tripInflight'
              /\ Cardinality(tripInflight' \ tripInflight) = 1
        /\ (tripInflight \ tripInflight' # {}) =>
              /\ tripInflight' \subseteq tripInflight
              /\ tripIssued' = tripIssued /\ clicks' = clicks
              /\ issued' = issued /\ timers' = timers /\ inflight' = inflight
      ]_vars

\* C17 witness: a geocode search ended with a search error and a trip
\* submission ended with an error; nothing is in flight, no timer is pending,
\* and one trip request was sent for the one click.
C17_Witness ==
    /\ error # Null
    /\ error[1][1] = MsgSearchErrorPrefix
    /\ applied = Len(issued)
    /\ inflight = {} /\ timers = {}
    /\ appError = MsgFailedToCreateTrip
    /\ ~appLoading
    /\ tripInflight = {}
    /\ tripIssued = 1 /\ clicks = 1

\* The request ended without an ok response: fetch threw, or the status was
\* not ok.
RequestFailed(resp) == resp.rejected \/ ~resp.ok

\* An error text that is not the empty string.
NonEmptyText(msg) == Len(msg) > 0 /\ \E i \in 1..Len(msg) : msg[i] # ""

\* C21: a call of handleSubmit while one of the three locations is null sends
\* no request and sets the error "Please select all locations"; when the
\* request of a submission fails (thrown fetch or non-ok response) the error
\* is set to a non-empty text, the stored tripResult stays as it was and
\* loading ends false; at most one trip request is in flight at any time.
C21_SubmitGuardAndFailure ==
    /\ [](Cardinality(tripInflight) <= 1)
    /\ [][ /\ (/\ clicks' = clicks + 1
               /\ (value = Null \/ pickupLocation = Null \/ dropoffLocation = Null))
              => /\ tripIssued' = tripIssued
                 /\ tripInflight' = tripInflight
                 /\ appError' = <<"Please select all locations">>
                 /\ tripResult' = tripResult
                 /\ appLoading' = appLoading
           /\ \A r \in tripInflight, resp \in TripResponses :
                 (TripComplete(r, resp) /\ RequestFailed(resp))
                 => /\ NonEmptyText(appError')
                    /\ tripResult' = tripResult
                    /\ appLoading' = FALSE
         ]_vars

\* C21 witness: handleSubmit was called once with a location missing and sent
\* nothing; of the two requests sent afterwards the first stored a trip result
\* and the second failed, leaving the result stored, the error set and
\* loading false.
C21_Witness ==
    /\ clicks = 3
    /\ tripIssued = 2
    /\ tripInflight = {}
    /\ tripResult = Some("trip")
    /\ appError = MsgFailedToCreateTrip
    /\ ~appLoading

\* The value of a decimal digit character, -1 for any other character.
DigitValue(c) ==
    IF \E i \in 0..9 : DigitChars[i + 1] = c
    THEN CHOOSE i \in 0..9 : DigitChars[i + 1] = c
    ELSE 0 - 1

\* C22 as written: for every hour h on the grid in [0, 24], formatTime(h) is
\* two digits, a colon and two digits; the hour part is floor(h) and the
\* minute part is in 00..59, never 60.
C22_MinutesBelowSixty ==
    fmtPc = "done" =>
        LET t == fmtText[1]
            h == fmtHour[1]
        IN /\ Len(t) = 5
           /\ t[3] = ":"
           /\ \A i \in {1, 2, 4, 5} : DigitValue(t[i]) >= 0
           /\ LET hh == 10 * DigitValue(t[1]) + DigitValue(t[2])
                  mm == 10 * DigitValue(t[4]) + DigitValue(t[5])
              IN /\ hh * h.d <= h.n
                 /\ h.n < (hh + 1) * h.d
                 /\ mm <= 59

====
